---- MODULE Spec2Model ----
(***************************************************************************)
(* Model of wiki_category_tree.py: the on-disk response cache              *)
(* (query_wikimedia_api), the fetch helpers, split_in_batches and the      *)
(* recursive crawl (explore_category / scrape).                            *)
(*                                                                         *)
(* Three specifications share the module:                                  *)
(*   Spec       the crawl: scrape(root) driving explore_category, with the *)
(*              cache and the remote API underneath it;                    *)
(*   CacheSpec  query_wikimedia_api called directly with arbitrary         *)
(*              parameter mappings on an arbitrary cache directory;        *)
(*   BatchSpec  split_in_batches as a pure function of its inputs.         *)
(***************************************************************************)
EXTENDS Integers, Sequences, FiniteSets, TLC

VARIABLES
    fs,                  \* the file system under CACHE_DIR_NAME: [dirs, files]
    api,                 \* the remote API's (fixed) membership answer per category
    explored_categories, \* module-level set, wiki_category_tree.py:120
    g,                   \* the nx.DiGraph under construction: [nodes, edges]
    root_category,       \* the argument of the current scrape call
    stack,               \* call stack of explore_category frames
    status,              \* "idle" | "running" | "done" | "aborted"
    result,              \* what the caller of scrape received (NoGraph until it returns)
    crawls,              \* number of scrape invocations so far
    steps,               \* history: steps explore_category and scrape took in this crawl
    explored_at_start,   \* history: explored_categories when this crawl began
    reached,             \* history: categories explore_category was called on in this crawl
    fetches,             \* history: fetch_members calls per category in this crawl
    reported,            \* history: categories whose truncation was printed in this crawl
    last,                \* history: what the last query_wikimedia_api call did
    written,             \* history: per cache key, the text first written after a miss
    migrated,            \* history: per cache key, the text found at its legacy path
    in_iterable, in_n,   \* BatchSpec: the arguments of split_in_batches
    out_batches,         \* BatchSpec: the batches it yielded
    split_done           \* BatchSpec: whether it has run

vars == << fs, api, explored_categories, g, root_category, stack, status,
           result, crawls, steps, explored_at_start, reached, fetches, reported, last, written,
           migrated, in_iterable, in_n, out_batches, split_done >>

crawlVars == << api, explored_categories, g, root_category, stack, status,
                result, crawls, steps, explored_at_start, reached, fetches, reported >>
cacheVars == << fs, last, written, migrated >>
batchVars == << in_iterable, in_n, out_batches, split_done >>

----------------------------------------------------------------------------
(* Bounds of the model *)

MaxMembers == 2     \* the API's page limit: the longest member listing it returns
MaxCrawls == 2      \* scrape invocations per behaviour
MaxListed == 3      \* member entries over all the listings of the wiki
MaxDepth == 6       \* explore_category frames the model lets the stack hold
MaxItems == 4       \* longest input of split_in_batches in BatchSpec
MaxBatch == 3       \* largest batch size in BatchSpec

(* Program constants *)

CACHE_DIR_NAME == ".cache"
MAX_SUBCATEGORIES == 500
BATCH_SIZE == 50

\* Python's None
None == [none |-> TRUE]
NoGraph == [nograph |-> TRUE]
\* No scrape call has been made yet.
NoCategory == ""

Min(a, b) == IF a < b THEN a ELSE b

----------------------------------------------------------------------------
(* Titles, members and the remote API's answers *)

CategoryTitles == {"Category:A", "Category:B", "Category:C"}
FileTitles == {"File:f1"}
Titles == CategoryTitles \cup FileTitles

\* Titles of further files, for listings longer than one batch.
FillerTitles ==
    << "File:g01", "File:g02", "File:g03", "File:g04", "File:g05", "File:g06",
       "File:g07", "File:g08", "File:g09", "File:g10", "File:g11", "File:g12",
       "File:g13", "File:g14", "File:g15", "File:g16", "File:g17", "File:g18",
       "File:g19", "File:g20", "File:g21", "File:g22", "File:g23", "File:g24",
       "File:g25", "File:g26", "File:g27", "File:g28", "File:g29", "File:g30",
       "File:g31", "File:g32", "File:g33", "File:g34", "File:g35", "File:g36",
       "File:g37", "File:g38", "File:g39", "File:g40", "File:g41", "File:g42",
       "File:g43", "File:g44", "File:g45", "File:g46", "File:g47", "File:g48",
       "File:g49", "File:g50", "File:g51", "File:g52" >>

\* Lexicographic order of the titles ("C" < "F"), as list.sort() compares them.
TitleOrder ==
    << "Category:A", "Category:B", "Category:C", "File:f1" >> \o FillerTitles
TitleRank(t) == CHOOSE i \in DOMAIN TitleOrder : TitleOrder[i] = t

\* member["title"].startswith("Category:")
StartsWithCategory(t) == t \in CategoryTitles

\* The page identifier the API gives each title.
PageIdOf(t) == 100 + TitleRank(t)
TitleOfPageId(p) == TitleOrder[p - 100]
Member(t) == [title |-> t, pageid |-> PageIdOf(t)]

RECURSIVE SeqsUpTo(_, _)
SeqsUpTo(S, k) ==
    IF k = 0 THEN { << >> }
    ELSE LET shorter == SeqsUpTo(S, k - 1)
         IN  shorter \cup { Append(s, x) : s \in shorter, x \in S }

NoRepeat(s) == \A i, j \in DOMAIN s : i # j => s[i] # s[j]

\* The member listings the API may return for a category: titles in any
\* order, a title listed at most once.
MemberLists ==
    { [i \in DOMAIN s |-> Member(s[i])] :
        s \in { q \in SeqsUpTo(Titles, MaxMembers) : NoRepeat(q) } }

\* Parsed bodies (formatversion 2 membership answers).  A complete answer has
\* batchcomplete true and no "continue"; a truncated one has batchcomplete
\* false and a "continue" marker, and holds a full page of members.
CompleteBody(ms) ==
    [batchcomplete |-> TRUE, query |-> [categorymembers |-> ms]]
TruncatedBody(ms) ==
    [batchcomplete |-> FALSE, continue |-> "cmcontinue",
     query |-> [categorymembers |-> ms]]
MemberBodies ==
    { CompleteBody(ms) : ms \in MemberLists } \cup
    { TruncatedBody(ms) : ms \in { x \in MemberLists : Len(x) = MaxMembers } }

ErrorBody == [error |-> "error"]

\* The content answer for a list of titles: pages keyed by page id, each with
\* the main slot of its latest revision.
ContentOf(t) == [content |-> t]
ContentBody(names) ==
    [query |-> [pages |->
        [p \in { PageIdOf(names[i]) : i \in DOMAIN names } |->
            LET t == TitleOfPageId(p)
            IN  [revisions |-> << [slots |-> [main |-> ContentOf(t)]] >>]]]]

\* A response as received: its text.  Two texts that differ only in
\* insignificant whitespace parse to the same value.
Text(body, ws) == [json |-> body, ws |-> ws]
JsonLoads(text) == text.json

----------------------------------------------------------------------------
(* Request parameters and the cache key, wiki_category_tree.py:21 *)

\* The parameter names in use, in the order json.dumps(sort_keys=True) puts them.
KeyOrder == << "action", "cmlimit", "cmtitle", "format", "formatversion",
               "list", "prop", "rvprop", "rvslots", "titles" >>
KeyRank(k) == CHOOSE i \in DOMAIN KeyOrder : KeyOrder[i] = k

\* The sequence s sorted by the rank function r (a stable sort, as Python's
\* sorted and list.sort are): an element goes to the place after all those
\* of lower rank and those of equal rank that precede it.
SortBy(s, r) ==
    LET rank == [i \in DOMAIN s |-> r[s[i]]] \o << >>
        place == [i \in DOMAIN s |->
                    1 + Cardinality({ j \in DOMAIN s :
                                        \/ rank[j] < rank[i]
                                        \/ rank[j] = rank[i] /\ j < i })] \o << >>
    IN  [k \in DOMAIN s |-> s[CHOOSE i \in DOMAIN s : place[i] = k]]

Range(s) == { s[i] : i \in DOMAIN s }

\* A dict is a sequence of <<key, value>> pairs in insertion order.
\* json.dumps(params, sort_keys=True): the pairs in key order.
\* (variant without sort_keys: the pairs in insertion order)
JsonDumpsUnsorted(params) == params
JsonDumpsSorted(params) ==
    SortBy(params, [kv \in Range(params) |-> KeyRank(kv[1])])

\* sha256(...).hexdigest(): collision-free on the serialisations in use; its
\* first two characters fall in one of NumShardPrefixes buckets.
NumShardPrefixes == 2
Sha256Hex(s) == [head |-> Len(s) % NumShardPrefixes, digest |-> s]
\* params_hash[:2]
ShardPrefix(h) == h.head

ParamsHash(params) == Sha256Hex(JsonDumpsSorted(params))
LegacyFilePath(params_hash) == << CACHE_DIR_NAME, params_hash >>
DirPath(params_hash) == << CACHE_DIR_NAME, ShardPrefix(params_hash) >>
FilePath(params_hash) ==
    << CACHE_DIR_NAME, ShardPrefix(params_hash), params_hash >>

----------------------------------------------------------------------------
(* The file system calls the cache uses (os, os.path), POSIX semantics *)

NoException == "NoException"

Parent(path) == SubSeq(path, 1, Len(path) - 1)
isdir(f, path) == path \in f.dirs
isfile(f, path) == path \in DOMAIN f.files

\* os.mkdir: fails when the parent is missing or the directory exists.
mkdir(f, path) ==
    IF Parent(path) \notin f.dirs
    THEN [fs |-> f, exc |-> "FileNotFoundError"]
    ELSE IF path \in f.dirs
    THEN [fs |-> f, exc |-> "FileExistsError"]
    ELSE [fs |-> [f EXCEPT !.dirs = @ \cup {path}], exc |-> NoException]

\* os.rename: src disappears, dst holds its content (replacing any file there).
\* (variant that copies: src stays)
renameCopies(f, src, dst) ==
    [f EXCEPT !.files =
        [q \in DOMAIN f.files \cup {dst} |->
            IF q = dst THEN f.files[src] ELSE f.files[q]]]
rename(f, src, dst) ==
    [f EXCEPT !.files =
        [q \in (DOMAIN f.files \ {src}) \cup {dst} |->
            IF q = dst THEN f.files[src] ELSE f.files[q]]]

\* open(path, 'w').write(text)
writeFile(f, path, text) ==
    [f EXCEPT !.files =
        [q \in DOMAIN f.files \cup {path} |->
            IF q = path THEN text ELSE f.files[q]]]

\* open(path, 'r').read()
readFile(f, path) == f.files[path]

----------------------------------------------------------------------------
(* query_wikimedia_api, wiki_category_tree.py:17-52 *)

\* The outcome of one call: the file system it leaves, the value returned
\* (None when it raised), the exception raised, and what it did on the way.
QueryResult(f, out, exc, network, moved, wrote) ==
    [fs |-> f, out |-> out, exc |-> exc, network |-> network,
     moved |-> moved, wrote |-> wrote]

\* Lines 38-50 on a cache miss: resp is the text the remote service answers.
\* (variant that writes the text before looking for the error indicator)
FetchAndSaveCachesErrors(f, file_path, resp, moved) ==
    QueryResult(writeFile(f, file_path, resp),
                IF "error" \in DOMAIN JsonLoads(resp) THEN None ELSE JsonLoads(resp),
                IF "error" \in DOMAIN JsonLoads(resp) THEN "Exception" ELSE NoException,
                TRUE, moved, TRUE)
\* (variant that writes json.dumps(out) instead of resp.text)
FetchAndSaveReserialised(f, file_path, resp, moved) ==
    LET out == JsonLoads(resp)
    IN  IF "error" \in DOMAIN out
        THEN QueryResult(f, None, "Exception", TRUE, moved, FALSE)
        ELSE QueryResult(writeFile(f, file_path, Text(out, 0)), out,
                         NoException, TRUE, moved, TRUE)
FetchAndSave(f, file_path, resp, moved) ==
    LET out == JsonLoads(resp)
    IN  IF "error" \in DOMAIN out
        THEN QueryResult(f, None, "Exception", TRUE, moved, FALSE)
        ELSE QueryResult(writeFile(f, file_path, resp), out, NoException,
                         TRUE, moved, TRUE)

\* Lines 29-30: a legacy flat file is moved to the sharded path.
\* (variant that copies the legacy file instead of moving it)
MigrateLegacyCopy(f, legacy_file_path, file_path) ==
    IF isfile(f, legacy_file_path)
    THEN renameCopies(f, legacy_file_path, file_path)
    ELSE f
MigrateLegacy(f, legacy_file_path, file_path) ==
    IF isfile(f, legacy_file_path)
    THEN rename(f, legacy_file_path, file_path)
    ELSE f

query_wikimedia_api(f, params, resp) ==
    LET params_hash == ParamsHash(params)
        legacy_file_path == LegacyFilePath(params_hash)
        dir_path == DirPath(params_hash)
        file_path == FilePath(params_hash)
        made == IF ~isdir(f, dir_path) THEN mkdir(f, dir_path)
                ELSE [fs |-> f, exc |-> NoException]
    IN  IF made.exc # NoException
        THEN QueryResult(f, None, made.exc, FALSE, FALSE, FALSE)
        ELSE LET moved == isfile(made.fs, legacy_file_path)
                 f2 == MigrateLegacy(made.fs, legacy_file_path, file_path)
             IN  IF isfile(f2, file_path)
                 THEN QueryResult(f2, JsonLoads(readFile(f2, file_path)),
                                  NoException, FALSE, moved, FALSE)
                 ELSE FetchAndSave(f2, file_path, resp, moved)

----------------------------------------------------------------------------
(* split_in_batches, wiki_category_tree.py:112-118 *)

\* range(start, stop, step) for a positive step
RECURSIVE PyRange(_, _, _)
PyRange(start, stop, step) ==
    IF start >= stop THEN << >>
    ELSE << start >> \o PyRange(start + step, stop, step)

\* iterable[lo:hi] for 0 <= lo <= hi <= len(iterable)
Slice(iterable, lo, hi) == SubSeq(iterable, lo + 1, hi)

\* The batches the generator yields, in order.
\* (variant that stops before a short last batch)
split_in_batchesFullOnly(iterable, n) ==
    LET l == Len(iterable)
        starts == PyRange(0, l - n + 1, n)
    IN  [k \in DOMAIN starts |->
            Slice(iterable, starts[k], Min(starts[k] + n, l))]
\* (variant that yields the batches last to first)
split_in_batchesReversed(iterable, n) ==
    LET l == Len(iterable)
        starts == PyRange(0, l, n)
    IN  [k \in DOMAIN starts |->
            Slice(iterable, starts[Len(starts) + 1 - k],
                  Min(starts[Len(starts) + 1 - k] + n, l))]
split_in_batches(iterable, n) ==
    LET l == Len(iterable)
        starts == PyRange(0, l, n)
    IN  [k \in DOMAIN starts |->
            Slice(iterable, starts[k], Min(starts[k] + n, l))]

----------------------------------------------------------------------------
(* fetch_members and fetch_content, wiki_category_tree.py:54-74, 93-110 *)

MembersParams(category) ==
    << << "action", "query" >>, << "format", "json" >>,
       << "formatversion", "2" >>, << "list", "categorymembers" >>,
       << "cmlimit", MAX_SUBCATEGORIES >>, << "cmtitle", category >> >>

\* names.sort()
SortNames(names) == SortBy(names, [t \in Range(names) |-> TitleRank(t)])

\* '|'.join(names) keeps the names and their order (a title holds no '|').
ContentParams(names) ==
    << << "action", "query" >>, << "prop", "revisions" >>,
       << "format", "json" >>, << "formatversion", "1" >>,
       << "rvslots", "*" >>, << "rvprop", "timestamp|user|comment|content" >>,
       << "titles", SortNames(names) >> >>

\* Line 72: the truncation test on a parsed membership answer.
IsTruncated(out) == out.batchcomplete = FALSE /\ "continue" \in DOMAIN out

\* What fetch_members makes of the outcome r of its query: the exception it
\* ends with, whether it printed the truncation message, the list returned.
\* (variant that raises on a truncated answer)
FetchMembersTruncationRaises(r) ==
    IF r.exc # NoException
    THEN [exc |-> r.exc, printed |-> FALSE, members |-> << >>]
    ELSE IF "batchcomplete" \notin DOMAIN r.out
    THEN [exc |-> "KeyError", printed |-> FALSE, members |-> << >>]
    ELSE IF IsTruncated(r.out)
    THEN [exc |-> "Exception", printed |-> TRUE, members |-> << >>]
    ELSE [exc |-> NoException, printed |-> FALSE,
          members |-> r.out.query.categorymembers]
FetchMembersResult(r) ==
    IF r.exc # NoException
    THEN [exc |-> r.exc, printed |-> FALSE, members |-> << >>]
    ELSE IF "batchcomplete" \notin DOMAIN r.out
    THEN [exc |-> "KeyError", printed |-> FALSE, members |-> << >>]
    ELSE [exc |-> NoException, printed |-> IsTruncated(r.out),
          members |-> r.out.query.categorymembers]

\* What fetch_content makes of the outcome r of its query.
FetchContentResult(r) ==
    IF r.exc # NoException
    THEN [exc |-> r.exc, pages |-> None]
    ELSE [exc |-> NoException, pages |-> r.out.query.pages]

----------------------------------------------------------------------------
(* The graph, networkx.DiGraph *)

\* A node without the content attribute.
NoContent == [nocontent |-> TRUE]
EmptyGraph == [content |-> << >>, edges |-> {}]
Nodes(graph) == DOMAIN graph.content

\* g.add_node(name, content=c): creates the node or overwrites its attribute.
\* (variant that leaves the attribute of an existing node alone)
add_nodeKeepsExisting(graph, name, c) ==
    [graph EXCEPT !.content =
        [x \in DOMAIN graph.content \cup {name} |->
            IF x \in DOMAIN graph.content THEN graph.content[x] ELSE c]]
add_node(graph, name, c) ==
    [graph EXCEPT !.content =
        [x \in DOMAIN graph.content \cup {name} |->
            IF x = name THEN c ELSE graph.content[x]]]

\* g.add_edge(u, v): creates missing end nodes without attributes.
\* (variant with the edge reversed: member to category)
add_edgeReversed(graph, u, v) ==
    [content |-> [x \in DOMAIN graph.content \cup {u, v} |->
                    IF x \in DOMAIN graph.content THEN graph.content[x]
                    ELSE NoContent],
     edges |-> graph.edges \cup { << v, u >> }]
add_edge(graph, u, v) ==
    [content |-> [x \in DOMAIN graph.content \cup {u, v} |->
                    IF x \in DOMAIN graph.content THEN graph.content[x]
                    ELSE NoContent],
     edges |-> graph.edges \cup { << u, v >> }]

----------------------------------------------------------------------------
(* The remote service *)

\* A category the service has not been asked about yet.
Unknown == [unknown |-> TRUE]
ErrorText == Text(ErrorBody, 0)
\* No request was sent, so nothing was answered.
NoResponse == [noresponse |-> TRUE]

KnownCategories == { c \in CategoryTitles : api[c] # Unknown }

RECURSIVE SumOver(_, _)
SumOver(S, f) ==
    IF S = {} THEN 0
    ELSE LET x == CHOOSE y \in S : TRUE IN f[x] + SumOver(S \ {x}, f)

\* Entries listed in the answers given so far.
Listed ==
    SumOver(KnownCategories,
            [c \in KnownCategories |-> Len(api[c].query.categorymembers)])

\* The service may answer any request with an error.
ErrorAnswers == {ErrorText}

\* The texts the service may answer a membership request for category c with:
\* an error, or its answer for c, which is fixed once it has been given.
MembersAnswers(c) ==
    ErrorAnswers \cup
    IF api[c] = Unknown
    THEN { Text(b, 0) :
             b \in { x \in MemberBodies :
                       Listed + Len(x.query.categorymembers) <= MaxListed } }
    ELSE { Text(api[c], 0) }

ContentAnswers(names) ==
    ErrorAnswers \cup { Text(ContentBody(SortNames(names)), 0) }

\* Whether query_wikimedia_api would go to the network for params.
NetworkNeeded(f, params) == query_wikimedia_api(f, params, ErrorText).network

\* No query has been made (in this crawl).
NoQuery == [params |-> << >>, hash |-> None, network |-> FALSE, moved |-> FALSE,
            wrote |-> FALSE, exc |-> NoException, out |-> None,
            resp |-> NoResponse]

\* The history variables after a query for params answered resp with outcome r.
Recorded(params, resp, r) ==
    LET params_hash == ParamsHash(params)
        legacy_file_path == LegacyFilePath(params_hash)
    IN  /\ last' = [params |-> params, hash |-> params_hash,
                    network |-> r.network, moved |-> r.moved,
                    wrote |-> r.wrote, exc |-> r.exc, out |-> r.out,
                    resp |-> IF r.network THEN resp ELSE NoResponse]
        /\ written' =
             IF r.network /\ r.exc = NoException
                /\ params_hash \notin DOMAIN written
             THEN [h \in DOMAIN written \cup {params_hash} |->
                     IF h \in DOMAIN written THEN written[h]
                     ELSE [text |-> resp, params |-> params]]
             ELSE written
        /\ migrated' =
             IF isfile(fs, legacy_file_path)
                /\ r.exc \notin {"FileNotFoundError", "FileExistsError"}
             THEN [h \in DOMAIN migrated \cup {params_hash} |->
                     IF h = params_hash THEN readFile(fs, legacy_file_path)
                     ELSE migrated[h]]
             ELSE migrated

----------------------------------------------------------------------------
(* explore_category and scrape, wiki_category_tree.py:122-149 *)

FirstRoot == "Category:A"

Frame(category) ==
    [category |-> category, pc |-> "entry", members |-> << >>, b |-> 0,
     i |-> 0, member_contents |-> None, requested |-> << >>]

Top == stack[Len(stack)]
Pop(st) == SubSeq(st, 1, Len(st) - 1)
SetTop(st, fr) == [st EXCEPT ![Len(st)] = fr]

\* An exception raised in the top frame: nothing catches it, so every frame
\* and scrape itself are left and the caller gets no value.
\* (variant in which the frame swallows the exception and returns)
ExceptionCaughtInFrame(st) == [stack |-> Pop(st), status |-> "running"]
Propagate(st) == [stack |-> << >>, status |-> "aborted"]

\* Line 133, reached once per batch whose content fetch succeeded.
\* (variant that never marks)
MarkExploredNever(explored, category) == explored
\* (variant that forgets the categories marked before)
MarkExploredForgets(explored, category) == {category}
MarkExplored(explored, category) == explored \cup {category}

\* Lines 126-127: the entry check.
\* (variant whose check never succeeds)
AlreadyExploredNever(explored, category) == FALSE
AlreadyExplored(explored, category) == category \in explored

\* scrape(root_category): a fresh graph, then explore_category(root_category).
\* The titles being interchangeable, the first crawl of a behaviour starts at
\* FirstRoot; later crawls start at any category.
Scrape(root) ==
    /\ status # "running"
    /\ crawls < MaxCrawls
    /\ crawls = 0 => root = FirstRoot
    /\ g' = EmptyGraph
    /\ root_category' = root
    /\ stack' = << Frame(root) >>
    /\ status' = "running"
    /\ result' = NoGraph
    /\ crawls' = crawls + 1
    /\ steps' = 0
    /\ explored_at_start' = explored_categories
    /\ reached' = {root}
    /\ fetches' = [c \in Titles |-> 0]
    /\ reported' = {}
    /\ last' = NoQuery
    /\ UNCHANGED << api, explored_categories, fs, written, migrated,
                    batchVars >>

\* Lines 126-127: the category is already explored, the call returns.
ReturnIfExplored ==
    /\ status = "running" /\ stack # << >>
    /\ steps' = steps + 1
    /\ Top.pc = "entry"
    /\ AlreadyExplored(explored_categories, Top.category)
    /\ stack' = Pop(stack)
    /\ UNCHANGED << api, explored_categories, g, root_category, status,
                    result, crawls, explored_at_start, reached, fetches, reported,
                    cacheVars, batchVars >>

\* Line 129: members = fetch_members(category, api_endpoint).
FetchMembers ==
    /\ status = "running" /\ stack # << >>
    /\ steps' = steps + 1
    /\ Top.pc = "entry"
    /\ ~AlreadyExplored(explored_categories, Top.category)
    /\ LET c == Top.category
           params == MembersParams(c)
       IN  \E resp \in IF NetworkNeeded(fs, params) THEN MembersAnswers(c)
                       ELSE {NoResponse} :
             LET r == query_wikimedia_api(fs, params, resp)
                 m == FetchMembersResult(r)
                 p == Propagate(stack)
             IN  /\ fs' = r.fs
                 /\ Recorded(params, resp, r)
                 /\ fetches' = [fetches EXCEPT ![c] = @ + 1]
                 /\ api' = IF r.network /\ r.exc = NoException
                           THEN [api EXCEPT ![c] = r.out] ELSE api
                 /\ reported' = IF m.printed THEN reported \cup {c}
                                ELSE reported
                 /\ IF m.exc # NoException
                    THEN stack' = p.stack /\ status' = p.status
                    ELSE /\ stack' = SetTop(stack,
                                [Top EXCEPT !.members = m.members,
                                            !.b = 1, !.pc = "batch"])
                         /\ status' = status
    /\ UNCHANGED << explored_categories, g, root_category, result, crawls,
                    explored_at_start, reached, batchVars >>

CurrentBatch(fr) == split_in_batches(fr.members, BATCH_SIZE)[fr.b]

\* Line 130: the generator is exhausted, explore_category returns.
ReturnAfterBatches ==
    /\ status = "running" /\ stack # << >>
    /\ steps' = steps + 1
    /\ Top.pc = "batch"
    /\ Top.b > Len(split_in_batches(Top.members, BATCH_SIZE))
    /\ stack' = Pop(stack)
    /\ UNCHANGED << api, explored_categories, g, root_category, status,
                    result, crawls, explored_at_start, reached, fetches, reported,
                    cacheVars, batchVars >>

\* Lines 130-133: the next batch, its content fetch, then the mark.
FetchContent ==
    /\ status = "running" /\ stack # << >>
    /\ steps' = steps + 1
    /\ Top.pc = "batch"
    /\ Top.b <= Len(split_in_batches(Top.members, BATCH_SIZE))
    /\ LET batch == CurrentBatch(Top)
           names == [k \in DOMAIN batch |-> batch[k].title]
           params == ContentParams(names)
       IN  \E resp \in IF NetworkNeeded(fs, params) THEN ContentAnswers(names)
                       ELSE {NoResponse} :
             LET r == query_wikimedia_api(fs, params, resp)
                 c == FetchContentResult(r)
                 p == Propagate(stack)
             IN  /\ fs' = r.fs
                 /\ Recorded(params, resp, r)
                 /\ IF c.exc # NoException
                    THEN /\ stack' = p.stack /\ status' = p.status
                         /\ UNCHANGED explored_categories
                    ELSE /\ explored_categories' =
                              MarkExplored(explored_categories, Top.category)
                         /\ stack' = SetTop(stack,
                                [Top EXCEPT !.member_contents = c.pages,
                                            !.i = 1, !.pc = "member",
                                            !.requested =
                                                Append(@, SortNames(names))])
                         /\ status' = status
    /\ UNCHANGED << api, g, root_category, result, crawls,
                    explored_at_start, reached, fetches, reported, batchVars >>

\* Line 134: the batch is done, back to the generator.
NextBatch ==
    /\ status = "running" /\ stack # << >>
    /\ steps' = steps + 1
    /\ Top.pc = "member"
    /\ Top.i > Len(CurrentBatch(Top))
    /\ stack' = SetTop(stack, [Top EXCEPT !.b = @ + 1, !.pc = "batch"])
    /\ UNCHANGED << api, explored_categories, g, root_category, status,
                    result, crawls, explored_at_start, reached, fetches, reported,
                    cacheVars, batchVars >>

\* Lines 134-141: one member of the batch.
ProcessMember ==
    /\ status = "running" /\ stack # << >>
    /\ steps' = steps + 1
    /\ Top.pc = "member"
    /\ Top.i <= Len(CurrentBatch(Top))
    /\ LET member == CurrentBatch(Top)[Top.i]
           member_content ==
               Top.member_contents[member.pageid].revisions[1].slots.main
           advanced == SetTop(stack, [Top EXCEPT !.i = @ + 1])
       IN  /\ g' = add_edge(add_node(g, member.title, member_content),
                            Top.category, member.title)
           /\ StartsWithCategory(member.title) => Len(stack) < MaxDepth
           /\ IF StartsWithCategory(member.title)
              THEN /\ stack' = Append(advanced, Frame(member.title))
                   /\ reached' = reached \cup {member.title}
              ELSE /\ stack' = advanced
                   /\ UNCHANGED reached
    /\ UNCHANGED << api, explored_categories, root_category, status, result,
                    crawls, explored_at_start, fetches, reported,
                    cacheVars, batchVars >>

\* Line 149: return g.
ScrapeReturn ==
    /\ status = "running" /\ stack = << >>
    /\ steps' = steps + 1
    /\ status' = "done"
    /\ result' = g
    /\ UNCHANGED << api, explored_categories, g, root_category, stack,
                    crawls, explored_at_start, reached, fetches,
                    reported, cacheVars, batchVars >>

\* The process ends and a new one starts: module state is rebuilt, the cache
\* directory stays.
Restart ==
    /\ status \in {"done", "aborted"}
    /\ crawls < MaxCrawls
    /\ explored_categories' = {}
    /\ g' = EmptyGraph
    /\ status' = "idle"
    /\ result' = NoGraph
    /\ UNCHANGED << api, root_category, stack, crawls, steps,
                    explored_at_start, reached, fetches, reported, cacheVars,
                    batchVars >>

EmptyCache == [dirs |-> { << CACHE_DIR_NAME >> }, files |-> << >>]
NoCacheDir == [dirs |-> {}, files |-> << >>]

Init ==
    /\ fs \in {EmptyCache, NoCacheDir}
    /\ api = [c \in CategoryTitles |-> Unknown]
    /\ explored_categories = {}
    /\ g = EmptyGraph
    /\ root_category = NoCategory
    /\ stack = << >>
    /\ status = "idle"
    /\ result = NoGraph
    /\ crawls = 0
    /\ steps = 0
    /\ explored_at_start = {}
    /\ reached = {}
    /\ fetches = [c \in Titles |-> 0]
    /\ reported = {}
    /\ last = NoQuery
    /\ written = << >>
    /\ migrated = << >>
    /\ in_iterable = << >> /\ in_n = 1 /\ out_batches = << >>
    /\ split_done = FALSE

Next ==
    \/ \E root \in CategoryTitles : Scrape(root)
    \/ ReturnIfExplored
    \/ FetchMembers
    \/ ReturnAfterBatches
    \/ FetchContent
    \/ NextBatch
    \/ ProcessMember
    \/ ScrapeReturn
    \/ Restart

Spec == Init /\ [][Next]_vars

----------------------------------------------------------------------------
(* CacheSpec: query_wikimedia_api called directly *)

\* Parameter dicts a caller may pass, each in one insertion order.
QueryDicts ==
    { << << "action", "query" >>, << "format", "json" >> >>,
      << << "action", "query" >>, << "format", "xml" >> >>,
      << << "action", "query" >>, << "format", "json" >>,
         << "list", "categorymembers" >> >> }

\* The dicts holding the pairs of dict d, one per insertion order.
Orderings(d) ==
    { s \in SeqsUpTo(Range(d), Len(d)) : Len(s) = Len(d) /\ NoRepeat(s) }
QueryParams == UNION { Orderings(d) : d \in QueryDicts }

\* The cache keys earlier runs may have left entries for.
QueryHashes == { ParamsHash(d) : d \in QueryDicts }

\* The texts the remote service may answer a direct query with.
QueryAnswers ==
    { Text([batchcomplete |-> TRUE], 0), Text([batchcomplete |-> TRUE], 1),
      Text([batchcomplete |-> FALSE], 0), ErrorText }

\* Texts left in the cache directory by earlier runs.
OldLegacyText == Text([batchcomplete |-> TRUE, old |-> "legacy"], 0)
OldShardedText == Text([batchcomplete |-> TRUE, old |-> "sharded"], 0)

\* The cache directories a run may start with: any set of legacy files, any
\* set of sharded files, each shard directory that holds a file and possibly
\* others; or no cache directory at all.
CacheWith(legacy, sharded, shards) ==
    [dirs  |-> { << CACHE_DIR_NAME >> } \cup shards
                 \cup { DirPath(h) : h \in sharded },
     files |-> [q \in { LegacyFilePath(h) : h \in legacy }
                      \cup { FilePath(h) : h \in sharded } |->
                  IF Len(q) = 2 THEN OldLegacyText ELSE OldShardedText]]
InitialCaches ==
    { NoCacheDir } \cup
    { CacheWith(legacy, sharded, shards) :
        legacy \in SUBSET QueryHashes, sharded \in SUBSET QueryHashes,
        shards \in SUBSET { DirPath(h) : h \in QueryHashes } }

QueryApi(params) ==
    /\ \E resp \in IF NetworkNeeded(fs, params) THEN QueryAnswers
                   ELSE {NoResponse} :
         LET r == query_wikimedia_api(fs, params, resp)
         IN  /\ fs' = r.fs
             /\ Recorded(params, resp, r)
    /\ UNCHANGED << crawlVars, batchVars >>

CacheInit ==
    /\ fs \in InitialCaches
    /\ api = [c \in CategoryTitles |-> Unknown]
    /\ explored_categories = {}
    /\ g = EmptyGraph
    /\ root_category = NoCategory
    /\ stack = << >>
    /\ status = "idle"
    /\ result = NoGraph
    /\ crawls = 0
    /\ steps = 0
    /\ explored_at_start = {}
    /\ reached = {}
    /\ fetches = [c \in Titles |-> 0]
    /\ reported = {}
    /\ last = NoQuery
    /\ written = << >>
    /\ migrated = << >>
    /\ in_iterable = << >> /\ in_n = 1 /\ out_batches = << >>
    /\ split_done = FALSE

CacheNext == \E params \in QueryParams : QueryApi(params)

CacheSpec == CacheInit /\ [][CacheNext]_vars

----------------------------------------------------------------------------
(* BatchSpec: split_in_batches on its own *)

Alphabet == {"a", "b"}

Split ==
    /\ ~split_done
    /\ out_batches' = split_in_batches(in_iterable, in_n)
    /\ split_done' = TRUE
    /\ UNCHANGED << in_iterable, in_n, crawlVars, cacheVars >>

BatchInit ==
    /\ in_iterable \in SeqsUpTo(Alphabet, MaxItems)
    /\ in_n \in 1..MaxBatch
    /\ out_batches = << >>
    /\ split_done = FALSE
    /\ fs = EmptyCache
    /\ api = [c \in CategoryTitles |-> Unknown]
    /\ explored_categories = {}
    /\ g = EmptyGraph
    /\ root_category = NoCategory
    /\ stack = << >>
    /\ status = "idle"
    /\ result = NoGraph
    /\ crawls = 0
    /\ steps = 0
    /\ explored_at_start = {}
    /\ reached = {}
    /\ fetches = [c \in Titles |-> 0]
    /\ reported = {}
    /\ last = NoQuery
    /\ written = << >>
    /\ migrated = << >>

BatchNext == Split

BatchSpec == BatchInit /\ [][BatchNext]_vars

----------------------------------------------------------------------------
(* LongSpec: the crawl over wikis with listings longer than one batch *)

Reverse(s) == [k \in DOMAIN s |-> s[Len(s) + 1 - k]]
Members(ts) == [k \in DOMAIN ts |-> Member(ts[k])]

\* Wikis whose root listing needs several content requests: a first batch
\* that opens with a category and lists the files out of title order,
\* followed by a batch of two; a full batch followed by a batch of one; and
\* exactly one full batch.
LongWikis ==
    { [c \in CategoryTitles |->
         CompleteBody(Members(
             CASE c = "Category:A" ->
                      << "Category:B" >>
                      \o Reverse(SubSeq(FillerTitles, 1, BATCH_SIZE - 1))
                      \o << "File:f1", "Category:C" >>
               [] c = "Category:B" -> << "File:f1" >>
               [] OTHER -> << "Category:A" >>))],
      [c \in CategoryTitles |->
         CompleteBody(Members(
             IF c = "Category:A"
             THEN SubSeq(FillerTitles, 1, BATCH_SIZE) \o << "File:f1" >>
             ELSE << >>))],
      [c \in CategoryTitles |->
         CompleteBody(Members(
             IF c = "Category:A" THEN SubSeq(FillerTitles, 1, BATCH_SIZE)
             ELSE << >>))] }

LongInit ==
    /\ fs = EmptyCache
    /\ api \in LongWikis
    /\ explored_categories = {}
    /\ g = EmptyGraph
    /\ root_category = NoCategory
    /\ stack = << >>
    /\ status = "idle"
    /\ result = NoGraph
    /\ crawls = 0
    /\ steps = 0
    /\ explored_at_start = {}
    /\ reached = {}
    /\ fetches = [c \in Titles |-> 0]
    /\ reported = {}
    /\ last = NoQuery
    /\ written = << >>
    /\ migrated = << >>
    /\ in_iterable = << >> /\ in_n = 1 /\ out_batches = << >>
    /\ split_done = FALSE

LongSpec == LongInit /\ [][Next]_vars

----------------------------------------------------------------------------
(* Claims about split_in_batches, checked under BatchSpec *)

Ceil(a, b) == (a + b - 1) \div b

RECURSIVE Concat(_)
Concat(ss) == IF ss = << >> THEN << >> ELSE Head(ss) \o Concat(Tail(ss))

\* C9: split_in_batches(items, n) for a sequence of length L and positive n
\* yields exactly ceil(L/n) batches, every batch of size n except possibly the
\* last, which is non-empty and at most n; the batches concatenated in order
\* are items; for L = 0 there is no batch.
C9_SplitInBatches ==
    split_done =>
        /\ Len(out_batches) = Ceil(Len(in_iterable), in_n)
        /\ \A k \in 1..(Len(out_batches) - 1) : Len(out_batches[k]) = in_n
        /\ out_batches # << >> =>
             /\ Len(out_batches[Len(out_batches)]) >= 1
             /\ Len(out_batches[Len(out_batches)]) <= in_n
        /\ Concat(out_batches) = in_iterable
        /\ Len(in_iterable) = 0 => out_batches = << >>

\* A split into several batches whose last batch is short.
C9_Witness ==
    /\ split_done
    /\ Len(out_batches) >= 2
    /\ Len(out_batches[Len(out_batches)]) < in_n

----------------------------------------------------------------------------
(* Claims about query_wikimedia_api, checked under CacheSpec *)

\* Neither a legacy nor a sharded file exists for cache key h.
NoEntry(f, h) == ~isfile(f, LegacyFilePath(h)) /\ ~isfile(f, FilePath(h))

\* C5: a response whose parsed body holds an error indicator is never
\* written to the cache: after the query failed with it, no file (sharded or
\* legacy) exists for its cache key, and the next query for the same
\* parameters goes to the network again.
C5_ErrorNotCached ==
    (last.network /\ "error" \in DOMAIN JsonLoads(last.resp)) =>
        /\ last.exc = "Exception"
        /\ ~last.wrote
        /\ NoEntry(fs, last.hash)
        /\ NetworkNeeded(fs, last.params)

\* The last query went to the network and was answered with an error.
C5_Witness ==
    /\ last.network
    /\ "error" \in DOMAIN JsonLoads(last.resp)
    /\ last.exc = "Exception"

\* C6: once a query has missed the cache and received a non-error response
\* with text B, B is stored verbatim under its cache key, and every later
\* query for the same key returns the parse of B without a network request.
C6_CacheRoundTrip ==
    /\ [](\A h \in DOMAIN written :
            /\ isfile(fs, FilePath(h))
            /\ readFile(fs, FilePath(h)) = written[h].text)
    /\ [][last'.hash \in DOMAIN written =>
            /\ ~last'.network
            /\ last'.exc = NoException
            /\ last'.out = JsonLoads(written[last'.hash].text)]_vars

\* The last query hit an entry this program wrote, whose text carries
\* whitespace a re-serialisation would lose.
C6_Witness ==
    /\ last.hash \in DOMAIN written
    /\ ~last.network
    /\ written[last.hash].text.ws = 1
    /\ last.out = JsonLoads(written[last.hash].text)

\* C7: if a legacy flat entry exists when its key is queried, then after that
\* query the legacy path no longer exists and the sharded path holds the same
\* text, whose parse is the value returned; a later query for the key returns
\* the same value without another move.
C7_LegacyMigration ==
    /\ [](\A h \in DOMAIN migrated :
            /\ ~isfile(fs, LegacyFilePath(h))
            /\ isfile(fs, FilePath(h))
            /\ readFile(fs, FilePath(h)) = migrated[h])
    /\ [][/\ isfile(fs, LegacyFilePath(last'.hash)) =>
               /\ last'.moved
               /\ last'.hash \in DOMAIN migrated'
               /\ last'.out = JsonLoads(readFile(fs, LegacyFilePath(last'.hash)))
          /\ last'.hash \in DOMAIN migrated =>
               /\ ~last'.moved
               /\ ~last'.network
               /\ last'.out = JsonLoads(migrated[last'.hash])]_vars

\* The last query was a later query for a key whose legacy entry an earlier
\* query had moved: it found no legacy file and returned the moved text.
C7_Witness ==
    /\ last.hash \in DOMAIN migrated
    /\ ~last.moved
    /\ last.out = JsonLoads(OldLegacyText)
    /\ ~isfile(fs, LegacyFilePath(last.hash))

\* C10: two parameter mappings holding the same key/value pairs inserted in
\* different orders have the same cache key, so a query built as the second
\* hits the entry written by a query built as the first.
C10_KeyDeterminism ==
    [][\A h \in DOMAIN written :
          Range(written[h].params) = Range(last'.params) =>
              /\ last'.hash = h
              /\ FilePath(last'.hash) = FilePath(ParamsHash(written[h].params))
              /\ ~last'.network
              /\ last'.out = JsonLoads(written[h].text)]_vars

\* The last query hit an entry written by a query whose dict held the same
\* pairs in another insertion order.
C10_Witness ==
    /\ last.hash \in DOMAIN written
    /\ written[last.hash].params # last.params
    /\ Range(written[last.hash].params) = Range(last.params)
    /\ ~last.network

----------------------------------------------------------------------------
(* Claims about the crawl, checked under Spec *)

\* The member listing the service gives for category c.
ApiMembers(c) ==
    IF api[c] = Unknown THEN << >> ELSE api[c].query.categorymembers
ApiTitles(c) == { ApiMembers(c)[k].title : k \in DOMAIN ApiMembers(c) }

\* The categories reachable from the set S through member listings.
RECURSIVE ReachableFrom(_)
ReachableFrom(S) ==
    LET more == S \cup { t \in UNION { ApiTitles(c) : c \in S } :
                           StartsWithCategory(t) }
    IN  IF more = S THEN S ELSE ReachableFrom(more)

ExpectedEdges(root) ==
    { e \in ReachableFrom({root}) \X Titles : e[2] \in ApiTitles(e[1]) }

\* C1: in a crawl, the number of fetch_members calls for any category that
\* is reached is exactly 1, also for categories reachable via several
\* parents, in cycles or with an empty member list.  Stated for a crawl that
\* starts with an empty ExploredSet: never more than one call, and exactly
\* one for every reached category when scrape returns.
C1_FetchedExactlyOnce ==
    /\ \A c \in Titles : fetches[c] <= 1
    /\ (status = "done" /\ explored_at_start = {}) =>
          \A c \in reached : fetches[c] = 1

\* C2: when scrape(root) returns, having started with an empty ExploredSet,
\* the graph's edges are exactly the pairs (c, m) with c the root or a
\* category reachable from it through member listings and m a member title
\* listed for c; its nodes are the end points of those edges.
C2_GraphIsReachableListing ==
    (status = "done" /\ explored_at_start = {}) =>
        /\ result.edges = ExpectedEdges(root_category)
        /\ Nodes(result) =
             { e[1] : e \in result.edges } \cup { e[2] : e \in result.edges }

\* The crawl of the example: the root lists a category and a file, the
\* category lists the file.
C2_Witness ==
    /\ status = "done" /\ explored_at_start = {}
    /\ result.edges = { << "Category:A", "Category:B" >>,
                        << "Category:A", "File:f1" >>,
                        << "Category:B", "File:f1" >> }

\* The steps a crawl can take at most.  A call of explore_category that
\* lists members is made at most once per category and takes the membership
\* fetch, the return, a content fetch and a loop exit per batch (a batch
\* holds at least one entry) and one step per entry; every other call (the
\* root's, or one per entry) takes at most two steps; scrape's return is one.
StepBound == 3 + 2 * Cardinality(CategoryTitles) + 5 * MaxListed

\* Whether the running crawl can take a step.
CanStep ==
    \/ stack = << >>
    \/ /\ Top.pc = "entry"
       /\ AlreadyExplored(explored_categories, Top.category)
    \/ /\ Top.pc = "entry"
       /\ NetworkNeeded(fs, MembersParams(Top.category))
            => MembersAnswers(Top.category) # {}
    \/ Top.pc = "batch"
    \/ /\ Top.pc = "member"
       /\ Top.i <= Len(CurrentBatch(Top))
            => (StartsWithCategory(CurrentBatch(Top)[Top.i].title)
                  => Len(stack) < MaxDepth)

\* C3: over any member relation (cycles and self-membership included) the
\* recursion started by scrape ends: a running crawl is never stuck and
\* never reaches the stack cap of the model, it takes at most StepBound
\* steps, and scrape raises only when a call of it failed.
C3_Termination ==
    /\ Len(stack) < MaxDepth
    /\ status = "running" => CanStep
    /\ steps <= StepBound
    /\ status = "aborted" => last.exc # NoException

\* A crawl over a cycle and a self-listing has returned.
C3_Witness ==
    /\ status = "done" /\ explored_at_start = {}
    /\ << "Category:A", "Category:B" >> \in result.edges
    /\ << "Category:B", "Category:A" >> \in result.edges
    /\ << "Category:B", "Category:B" >> \in result.edges

\* C4: a membership or content fetch answered with an error aborts the crawl
\* at that call: every explore_category frame and scrape are left, the caller
\* receives no graph, and no fetch can follow.
C4_ErrorAborts ==
    /\ [][(/\ last' # last
            /\ last'.network
            /\ "error" \in DOMAIN JsonLoads(last'.resp)) =>
            /\ status' = "aborted"
            /\ stack' = << >>
            /\ result' = NoGraph]_vars
    /\ [](status = "aborted" =>
            /\ stack = << >>
            /\ result = NoGraph
            /\ ~ENABLED (FetchMembers \/ FetchContent))

\* An error answer reached a nested explore_category call after part of the
\* graph had been built.
C4_Witness ==
    /\ status = "aborted"
    /\ last.network
    /\ "error" \in DOMAIN JsonLoads(last.resp)
    /\ Cardinality(reached) >= 2
    /\ g.edges # {}

\* C8: a membership answer flagged truncated is not fatal: fetch_members
\* reports it and returns the partial listing, and when the crawl returns the
\* graph holds an edge to every member of that listing.
C8_TruncationTolerated ==
    /\ [][\A c \in CategoryTitles :
            (/\ fetches'[c] = fetches[c] + 1
             /\ last'.exc = NoException
             /\ IsTruncated(last'.out)) =>
                /\ status' = "running"
                /\ c \in reported'
                /\ stack'[Len(stack')].category = c
                /\ stack'[Len(stack')].members =
                       last'.out.query.categorymembers]_vars
    /\ [](status = "done" =>
            \A c \in reported :
                \A t \in ApiTitles(c) : << c, t >> \in result.edges)

\* A crawl whose truncated listing held two members has returned.
C8_Witness ==
    /\ status = "done"
    /\ \E c \in reported :
         /\ Cardinality(ApiTitles(c)) = 2
         /\ \A t \in ApiTitles(c) : << c, t >> \in result.edges

----------------------------------------------------------------------------
(* Claims about the graph and ExploredSet during the crawl, under Spec *)

\* C11: the graph built by a crawl never contains a self-loop: whatever the
\* service answers (a category listed among its own members included), no
\* edge (c, c) is in the graph.
C11_NoSelfLoop ==
    \A e \in g.edges : e[1] # e[2]

\* The categories whose explore_category call is waiting on a recursive call.
Callers == { stack[k].category : k \in 1..(Len(stack) - 1) }

\* C12: whenever explore_category(child) is invoked recursively while
\* category c is processed, c is already in ExploredSet, so a child that
\* lists c does not cause a second membership fetch of c: every waiting
\* caller is marked and was fetched once in this crawl, a recursive call is
\* only made from a marked category, and no membership fetch is for a caller.
C12_MarkBeforeRecurse ==
    /\ [](\A c \in Callers :
            /\ c \in explored_categories
            /\ fetches[c] = 1)
    /\ [][Len(stack') > Len(stack) /\ stack # << >> =>
            Top.category \in explored_categories]_vars
    /\ [][\A c \in Callers : fetches'[c] = fetches[c]]_vars

\* A child has called explore_category on the category that is exploring it:
\* the call is at its entry check and the category was fetched once.
C12_Witness ==
    /\ Len(stack) = 3
    /\ stack[3].category = stack[1].category
    /\ stack[3].category # stack[2].category
    /\ stack[3].pc = "entry"
    /\ fetches[stack[1].category] = 1

----------------------------------------------------------------------------
(* Claims about the batches of a category, checked under LongSpec *)

\* The entries of its listing the call in frame fr has begun to process.
Done(fr) ==
    IF fr.pc = "entry" THEN 0
    ELSE IF fr.pc = "batch"
    THEN Min(BATCH_SIZE * (fr.b - 1), Len(fr.members))
    ELSE BATCH_SIZE * (fr.b - 1) + fr.i - 1

\* The positions in its listing of the batch the call in frame fr is at.
BatchPositions(fr) ==
    (BATCH_SIZE * (fr.b - 1) + 1)..Min(BATCH_SIZE * fr.b, Len(fr.members))

\* A query has just failed.
QueryFailed == last' # last /\ last'.exc # NoException

\* C13: within one category's processing the batches are taken in the order
\* of the listing (the members with an edge from the category are always a
\* prefix of its listing, each with the content its batch's fetch returned);
\* a node or edge is added, and a member recursed into, only for a member of
\* the batch whose content fetch has just succeeded; a failed content fetch
\* adds no node and no edge.
C13_BatchOrder ==
    /\ [](\A k \in DOMAIN stack :
            stack[k].pc # "entry" =>
                /\ { e[2] : e \in { x \in g.edges :
                                      x[1] = stack[k].category } } =
                       { stack[k].members[j].title : j \in 1..Done(stack[k]) }
                /\ \A j \in BatchPositions(stack[k]) \cap 1..Done(stack[k]) :
                       /\ stack[k].members[j].title \in Nodes(g)
                       /\ g.content[stack[k].members[j].title] =
                              stack[k].member_contents[
                                  stack[k].members[j].pageid
                              ].revisions[1].slots.main)
    /\ [][(status = "running" /\ (g' # g \/ Len(stack') > Len(stack))) =>
            /\ Top.pc = "member"
            /\ DOMAIN Top.member_contents =
                   { Top.members[j].pageid : j \in BatchPositions(Top) }
            /\ \E j \in BatchPositions(Top) :
                   /\ g'.edges = g.edges \cup
                          { << Top.category, Top.members[j].title >> }
                   /\ Nodes(g') = Nodes(g) \cup
                          { Top.category, Top.members[j].title }
                   /\ Len(stack') > Len(stack) =>
                          stack'[Len(stack')].category =
                              Top.members[j].title]_vars
    /\ [][QueryFailed => g' = g]_vars

\* The content fetch of the second batch failed after the first batch of 50
\* had been added: the graph holds the first batch and nothing of the second.
C13_Witness ==
    /\ status = "aborted"
    /\ last.network /\ last.exc = "Exception"
    /\ Cardinality({ e \in g.edges : e[1] = "Category:A" }) = BATCH_SIZE
    /\ "File:f1" \notin Nodes(g)
    /\ Len(ApiMembers("Category:A")) = BATCH_SIZE + 1

\* The titles a query carried in its "titles" parameter (none for a
\* membership query).
RequestedTitles(params) ==
    IF \E k \in DOMAIN params : params[k][1] = "titles"
    THEN params[CHOOSE k \in DOMAIN params : params[k][1] = "titles"][2]
    ELSE << >>
IsContentQuery(params) == \E k \in DOMAIN params : params[k][1] = "titles"

\* C14: every content request explore_category issues carries at least 1 and
\* at most 50 titles, and during one exploration of a category every entry
\* of its listing is covered by exactly one content request: no title is
\* requested twice, only listed titles are requested, and when the call
\* returns after its batches every listed title has been requested.
C14_BatchSizeAndCover ==
    /\ [](IsContentQuery(last.params) =>
            /\ Len(RequestedTitles(last.params)) >= 1
            /\ Len(RequestedTitles(last.params)) <= 50)
    /\ [](\A k \in DOMAIN stack :
            /\ \A q \in DOMAIN stack[k].requested :
                 /\ Len(stack[k].requested[q]) >= 1
                 /\ Len(stack[k].requested[q]) <= 50
            /\ NoRepeat(Concat(stack[k].requested))
            /\ Range(Concat(stack[k].requested)) \subseteq
                   { stack[k].members[j].title : j \in DOMAIN stack[k].members })
    /\ [][(status = "running" /\ stack # << >> /\ Top.pc = "batch"
            /\ stack' = Pop(stack) /\ status' = "running") =>
              /\ Len(Concat(Top.requested)) = Len(Top.members)
              /\ Range(Concat(Top.requested)) =
                     { Top.members[j].title : j \in DOMAIN Top.members }]_vars

\* The exploration of a category that lists 52 members is returning after
\* two content requests, of 50 and of 2 titles.
C14_Witness ==
    /\ status = "running" /\ stack # << >>
    /\ Top.pc = "batch"
    /\ Len(Top.members) = BATCH_SIZE + 2
    /\ Len(Top.requested) = 2
    /\ Len(Top.requested[1]) = BATCH_SIZE
    /\ Len(Top.requested[2]) = 2
    /\ Top.b = 3

----------------------------------------------------------------------------
(* Claims about the entry check and ExploredSet, checked under Spec *)

\* C15: a call explore_category(c) with c already in ExploredSet returns at
\* once and changes nothing: it issues no membership or content fetch,
\* touches no cache file, adds no node or edge and leaves ExploredSet as it
\* is; the only effect is that the call is over.
C15_EntryCheckNoOp ==
    [][(/\ status = "running" /\ stack # << >>
        /\ Top.pc = "entry"
        /\ Top.category \in explored_categories) =>
            /\ stack' = Pop(stack)
            /\ status' = "running"
            /\ fs' = fs
            /\ g' = g
            /\ explored_categories' = explored_categories
            /\ fetches' = fetches
            /\ last' = last
            /\ api' = api]_vars

\* scrape was called on a category marked by an earlier crawl and has
\* returned an empty graph without a single query.
C15_Witness ==
    /\ status = "done"
    /\ root_category \in explored_at_start
    /\ result = EmptyGraph
    /\ last = NoQuery
    /\ \A c \in Titles : fetches[c] = 0

\* C16: ExploredSet only grows while the process lives: no step of a crawl
\* removes an element, and neither the start of a new scrape nor a crawl
\* that aborts resets it (only the end of the process does); so a category
\* marked by an earlier crawl of the process is stopped at the entry check
\* in every later crawl: no membership fetch is issued for it.
C16_ExploredOnlyGrows ==
    /\ [][status' # "idle" =>
            explored_categories \subseteq explored_categories']_vars
    /\ [](status # "idle" =>
            /\ explored_at_start \subseteq explored_categories
            /\ \A c \in explored_at_start : fetches[c] = 0)

\* A later crawl of the process has returned after reaching, through a
\* listing, a category that an earlier crawl had marked.
C16_Witness ==
    /\ status = "done"
    /\ crawls = 2
    /\ \E c \in explored_at_start :
         /\ c # root_category
         /\ c \in reached
         /\ fetches[c] = 0
         /\ << root_category, c >> \in result.edges

----------------------------------------------------------------------------
(* Claims about the shard directory, checked under CacheSpec *)

\* C17: shard-directory creation is idempotent and never the cause of a
\* failed query: whatever queries came before, a query for key K leaves the
\* directory .cache/<K[:2]> in place, having created it if it was absent,
\* and does not end with an exception of the directory creation.
C17_ShardDirEnsured ==
    last # NoQuery =>
        /\ last.exc \notin {"FileNotFoundError", "FileExistsError"}
        /\ isdir(fs, DirPath(last.hash))

----------------------------------------------------------------------------
(* Claims about the end of a crawl, checked under Spec *)

\* C18: when scrape(root) returns normally, every category for which a
\* membership fetch was issued during the crawl is in ExploredSet, whatever
\* the size of its member listing.
C18_FetchedAreExplored ==
    status = "done" =>
        \A c \in CategoryTitles : fetches[c] >= 1 => c \in explored_categories

\* C19: in every state of a crawl every node of the graph other than the
\* root carries a content attribute, the one the content fetch returned for
\* it; only the root can lack it, and only while no explored category has
\* listed the root as a member.
C19_NodesCarryContent ==
    \A x \in Nodes(g) :
        IF x = root_category /\ ~\E e \in g.edges : e[2] = x
        THEN g.content[x] = NoContent
        ELSE g.content[x] = ContentOf(x)

\* A crawl has returned a graph in which the root lacks the content and
\* three other nodes carry theirs.
C19_Witness ==
    /\ status = "done"
    /\ Cardinality(Nodes(result)) = 4
    /\ root_category \in Nodes(result)
    /\ result.content[root_category] = NoContent
    /\ \A x \in Nodes(result) \ {root_category} :
         result.content[x] = ContentOf(x)

====
